---- MODULE Spec2Model ----
(***************************************************************************)
(* A model of the method-dispatch and transport core of BitcoinClient:     *)
(* BitcoinClient.__send (src/src/BitcoinClient.js), the helper             *)
(* isKnownMethod and the RPC registry (src/src/constants.js).              *)
(*                                                                         *)
(* Text on the wire is modelled as a sequence of JSON tokens (a string per *)
(* token, a string literal with its quotes): a body is a sequence of       *)
(* tokens, a transport chunk is a non-empty contiguous piece of a body.    *)
(***************************************************************************)
EXTENDS Integers, Sequences, FiniteSets, TLC

VARIABLES
  RPC,      \* the registry object of constants.js (own keys -> descriptor)
  clients,  \* the BitcoinClient instances: RPC_HOST, RPC_PORT, RPC_USER, RPC_PASSWORD
  calls,    \* one record per __send invocation
  checked   \* the last direct call of helper.isValidArgsForMethod

vars == <<RPC, clients, calls, checked>>

(***************************************************************************)
(* Bounds of the model.                                                    *)
(***************************************************************************)
MaxCalls == 2    \* __send invocations that exist in one behaviour
MaxChunks == 2   \* the most 'data' events one response body is split into

CallIds == 1..MaxCalls

(***************************************************************************)
(* JavaScript values.  Every value is a record of the same shape, so that  *)
(* any two values can be compared: t is the type, n the number (or 1/0 for *)
(* a boolean), s the string, a the elements of an array or the member      *)
(* values of an object, k the member keys of an object.                    *)
(***************************************************************************)
Undefined == [t |-> "undefined", n |-> 0, s |-> "", a |-> <<>>, k |-> <<>>]
Null      == [t |-> "null", n |-> 0, s |-> "", a |-> <<>>, k |-> <<>>]
Bool(b)   == [t |-> "bool", n |-> IF b THEN 1 ELSE 0, s |-> "", a |-> <<>>, k |-> <<>>]
Num(n)    == [t |-> "num", n |-> n, s |-> "", a |-> <<>>, k |-> <<>>]
Str(s)    == [t |-> "str", n |-> 0, s |-> s, a |-> <<>>, k |-> <<>>]
Arr(a)    == [t |-> "arr", n |-> 0, s |-> "", a |-> a, k |-> <<>>]
Obj(k, a) == [t |-> "obj", n |-> 0, s |-> "", a |-> a, k |-> k]

\* The numbers and strings that occur as JSON number and string tokens.
NumDomain == {-5, 0, 1, 42}
StrDomain == {"jsonrpc", "1.0", "id", "curltest", "method", "params",
              "result", "error", "code", "message", "not found",
              "getblockcount", "getblock", "toString",
              "00ab", "tx1", "tx2", "basic", "k"}

\* the tokens of the numbers and strings, and the value each one is the text of
NumTokens == [tk \in {ToString(n) : n \in NumDomain} |->
                CHOOSE n \in NumDomain : ToString(n) = tk]
StrTokens == [tk \in {ToString(s) : s \in StrDomain} |->
                CHOOSE s \in StrDomain : ToString(s) = tk]

IsNumTok(tk) == tk \in DOMAIN NumTokens
NumOf(tk)    == NumTokens[tk]
IsStrTok(tk) == tk \in DOMAIN StrTokens
StrOf(tk)    == StrTokens[tk]

(***************************************************************************)
(* JSON.stringify(value, null, 0): the text of a value, without spaces.    *)
(* An undefined element of an array is written as null; a member of an     *)
(* object whose value is undefined is left out.                            *)
(***************************************************************************)
RECURSIVE JSONstringify(_)
RECURSIVE StringifyElements(_, _)
RECURSIVE StringifyMembers(_, _, _, _)
RECURSIVE StringifyElementsDropUndefined(_, _)

\* elements written as members are: an undefined element is left out
StringifyElementsDropUndefined(a, i) ==
  IF i > Len(a) THEN <<>>
  ELSE IF a[i].t = "undefined" THEN StringifyElementsDropUndefined(a, i + 1)
  ELSE (IF \E j \in 1..(i - 1) : a[j].t # "undefined" THEN <<",">> ELSE <<>>)
       \o JSONstringify(a[i])
       \o StringifyElementsDropUndefined(a, i + 1)

\* the elements of an array from the i-th on
StringifyElements(a, i) ==
  IF i > Len(a) THEN <<>>
  ELSE (IF i > 1 THEN <<",">> ELSE <<>>)
       \o (IF a[i].t = "undefined" THEN <<"null">> ELSE JSONstringify(a[i]))
       \o StringifyElements(a, i + 1)

StringifyMembers(k, a, i, first) ==
  IF i > Len(k) THEN <<>>
  ELSE IF a[i].t = "undefined" THEN StringifyMembers(k, a, i + 1, first)
  ELSE (IF first THEN <<>> ELSE <<",">>)
       \o <<ToString(k[i]), ":">> \o JSONstringify(a[i])
       \o StringifyMembers(k, a, i + 1, FALSE)

JSONstringify(v) ==
  CASE v.t = "null" -> <<"null">>
    [] v.t = "bool" -> <<IF v.n = 1 THEN "true" ELSE "false">>
    [] v.t = "num"  -> <<ToString(v.n)>>
    [] v.t = "str"  -> <<ToString(v.s)>>
    [] v.t = "arr"  -> <<"[">> \o StringifyElements(v.a, 1) \o <<"]">>
    [] v.t = "obj"  -> <<"{">> \o StringifyMembers(v.k, v.a, 1, TRUE) \o <<"}">>
    [] OTHER        -> <<>>

(***************************************************************************)
(* JSON.parse(text): the value of a text, or a SyntaxError (ok = FALSE).   *)
(* The text must be exactly one JSON value.                                *)
(***************************************************************************)
RECURSIVE ParseValue(_, _)
RECURSIVE ParseElements(_, _, _)
RECURSIVE ParseMembers(_, _, _, _)

ParseFail == [ok |-> FALSE, v |-> Undefined, i |-> 0]
ParseOk(v, i) == [ok |-> TRUE, v |-> v, i |-> i]
Tok(toks, i) == IF i >= 1 /\ i <= Len(toks) THEN toks[i] ELSE ""

\* a member set twice keeps its first position and takes the last value
PutMember(ks, vs, key, v) ==
  IF \E j \in 1..Len(ks) : ks[j] = key
  THEN [keys |-> ks, vals |-> [j \in 1..Len(vs) |-> IF ks[j] = key THEN v ELSE vs[j]]]
  ELSE [keys |-> Append(ks, key), vals |-> Append(vs, v)]

ParseElements(toks, i, acc) ==
  LET r == ParseValue(toks, i) IN
  IF ~r.ok THEN ParseFail
  ELSE LET acc2 == Append(acc, r.v) IN
       CASE Tok(toks, r.i) = "," -> ParseElements(toks, r.i + 1, acc2)
         [] Tok(toks, r.i) = "]" -> ParseOk(Arr(acc2), r.i + 1)
         [] OTHER                -> ParseFail

ParseMembers(toks, i, ks, vs) ==
  IF ~IsStrTok(Tok(toks, i)) \/ Tok(toks, i + 1) # ":" THEN ParseFail
  ELSE LET r == ParseValue(toks, i + 2) IN
       IF ~r.ok THEN ParseFail
       ELSE LET m == PutMember(ks, vs, StrOf(Tok(toks, i)), r.v) IN
            CASE Tok(toks, r.i) = "," -> ParseMembers(toks, r.i + 1, m.keys, m.vals)
              [] Tok(toks, r.i) = "}" -> ParseOk(Obj(m.keys, m.vals), r.i + 1)
              [] OTHER                -> ParseFail

ParseValue(toks, i) ==
  LET tk == Tok(toks, i) IN
  CASE tk = "null"  -> ParseOk(Null, i + 1)
    [] tk = "true"  -> ParseOk(Bool(TRUE), i + 1)
    [] tk = "false" -> ParseOk(Bool(FALSE), i + 1)
    [] tk = "["     -> IF Tok(toks, i + 1) = "]" THEN ParseOk(Arr(<<>>), i + 2)
                       ELSE ParseElements(toks, i + 1, <<>>)
    [] tk = "{"     -> IF Tok(toks, i + 1) = "}" THEN ParseOk(Obj(<<>>, <<>>), i + 2)
                       ELSE ParseMembers(toks, i + 1, <<>>, <<>>)
    [] OTHER        -> IF IsNumTok(tk) THEN ParseOk(Num(NumOf(tk)), i + 1)
                       ELSE IF IsStrTok(tk) THEN ParseOk(Str(StrOf(tk)), i + 1)
                       ELSE ParseFail

JSONparse(toks) ==
  LET r == ParseValue(toks, 1) IN
  IF r.ok /\ r.i = Len(toks) + 1 THEN [ok |-> TRUE, v |-> r.v]
  ELSE [ok |-> FALSE, v |-> Undefined]

\* value.name for a property name that no prototype defines: the member of an
\* object, undefined on any other value; on null and undefined a TypeError.
HasMember(v, name) == v.t = "obj" /\ \E j \in 1..Len(v.k) : v.k[j] = name
GetMember(v, name) ==
  IF HasMember(v, name) THEN v.a[CHOOSE j \in 1..Len(v.k) : v.k[j] = name]
  ELSE Undefined
MemberThrows(v) == v.t \in {"null", "undefined"}

(***************************************************************************)
(* The registry, constants.js.  RPC is an object literal: RPC[name] is the *)
(* own member of that name, else the member inherited from                 *)
(* Object.prototype, else undefined.  A descriptor keeps the shape of its  *)
(* args member: none, a list (with its length) or a single object.         *)
(***************************************************************************)
Descriptor(shape, n) == [args |-> shape, argc |-> n]

\* the keys of the object literal, in the order of the file
RPCNames ==
  {
    "getbestblockhash", "getblock", "getblockchaininfo", "getblockcount",
    "getblockfilter", "getblockhash", "getblockheader", "getblockstats",
    "getchaintips", "getchaintxstats", "getdifficulty",
    "getmempoolancestors", "getmempooldescendants", "getmempoolentry",
    "getmempoolinfo", "getrawmempool", "gettxout", "gettxoutproof",
    "gettxoutsetinfo", "preciousblock", "pruneblockchain", "savemempool",
    "scantxoutset", "verifychain", "verifytxoutproof", "getmemoryinfo",
    "getrpcinfo", "help", "logging", "stop", "uptime", "generateblock",
    "generatetoaddress", "generatetodescriptor", "getblocktemplate",
    "getmininginfo", "getnetworkhashps", "prioritisetransaction",
    "submitblock", "submitheader", "addnode", "clearbanned",
    "disconnectnode", "getaddednodeinfo", "getconnectioncount",
    "getnettotals", "getnetworkinfo", "getnodeaddresses", "getpeerinfo",
    "listbanned", "ping", "setban", "setnetworkactive", "analyzepsbt",
    "combinepsbt", "combinerawtransaction", "converttopsbt", "createpsbt",
    "createrawtransaction", "decodepsbt", "decoderawtransaction",
    "decodescript", "finalizepsbt", "fundrawtransaction",
    "getrawtransaction", "joinpsbts", "sendrawtransaction",
    "signrawtransactionwithkey", "testmempoolaccept", "utxoupdatepsbt",
    "createmultisig", "deriveaddresses", "estimatesmartfee",
    "getdescriptorinfo", "getindexinfo", "signmessagewithprivkey",
    "validateaddress", "verifymessage", "abandontransaction", "abortrescan",
    "addmultisigaddress", "backupwallet", "bumpfee", "createwallet",
    "dumpprivkey", "dumpwallet", "encryptwallet", "getaddressesbylabel",
    "getaddressinfo", "getbalance", "getbalances", "getnewaddress",
    "getrawchangeaddress", "getreceivedbyaddress", "getreceivedbylabel",
    "gettransaction", "getunconfirmedbalance", "getwalletinfo",
    "importaddress", "importdescriptors", "importmulti", "importprivkey",
    "importprunedfunds", "importpubkey", "importwallet", "keypoolrefill",
    "listaddressgroupings", "listlabels", "listlockunspent",
    "listreceivedbyaddress", "listreceivedbylabel", "listsinceblock",
    "listtransactions", "listunspent", "listwalletdir", "listwallets",
    "loadwallet", "lockunspent", "psbtbumpfee", "removeprunedfunds",
    "rescanblockchain", "send", "sendmany", "sendtoaddress", "sethdseed",
    "setlabel", "settxfee", "setwalletflag", "signmessage",
    "signrawtransactionwithwallet", "unloadwallet", "upgradewallet",
    "walletcreatefundedpsbt", "walletlock", "walletpassphrase",
    "walletpassphrasechange", "walletprocesspsbt" }

\* the descriptor of each key: nine have an args list, setnetworkactive has a
\* single object as its args, the others have no args member
RPCTable ==
  [name \in RPCNames |->
     CASE name = "getblock"         -> Descriptor("list", 2)
       [] name = "getblockfilter"   -> Descriptor("list", 2)
       [] name = "getblockhash"     -> Descriptor("list", 1)
       [] name = "getmemoryinfo"    -> Descriptor("list", 1)
       [] name = "logging"          -> Descriptor("list", 2)
       [] name = "addnode"          -> Descriptor("list", 2)
       [] name = "getaddednodeinfo" -> Descriptor("list", 1)
       [] name = "getnodeaddresses" -> Descriptor("list", 1)
       [] name = "setban"           -> Descriptor("list", 4)
       [] name = "setnetworkactive" -> Descriptor("object", 0)
       [] OTHER                     -> Descriptor("none", 0)]

ObjectPrototype == {"constructor", "toString", "valueOf", "hasOwnProperty"}

\* RPC[method] !== undefined
isKnownMethod(table, method) ==
  method \in DOMAIN table \/ method \in ObjectPrototype

\* the registry after isKnownMethod(method): the lookup RPC[method] reads the
\* table and writes nothing
LookupInserts(table, method) ==
  [name \in DOMAIN table \cup {method} |->
     IF name \in DOMAIN table THEN table[name] ELSE Descriptor("none", 0)]
AfterLookup(table, method) == table

\* what a call of a helper does: it returns a boolean or throws a TypeError
Returns(b) == [threw |-> FALSE, value |-> b]
Throws == [threw |-> TRUE, value |-> FALSE]

\* RPC[method].args of a name isKnownMethod accepts: the args member of the
\* entry, and undefined for a member inherited from Object.prototype
SpecifiedArgs(table, method) ==
  IF method \in DOMAIN table THEN table[method] ELSE Descriptor("none", 0)

\* isValidArgsForMethod(method, args): specifiedArgs.length throws when
\* specifiedArgs is undefined and is undefined when specifiedArgs is a single
\* object; both branches after the length comparison return false
isValidArgsForMethod(table, method, args) ==
  IF ~isKnownMethod(table, method) THEN Returns(FALSE)
  ELSE LET specifiedArgs == SpecifiedArgs(table, method) IN
       IF specifiedArgs.args = "none" THEN Throws
       ELSE IF specifiedArgs.args = "object" \/ Len(args) # specifiedArgs.argc
            THEN Returns(FALSE)
            ELSE Returns(FALSE)

(***************************************************************************)
(* Errors and promises.  An Error is modelled by the parts of its message: *)
(* the kind of failure, and the method, status code and raw chunk the      *)
(* message quotes.  A promise settles once: resolve and reject do nothing  *)
(* to a promise that is no longer pending.                                 *)
(***************************************************************************)
NoError == [kind |-> "none", method |-> "", status |-> 0, raw |-> <<>>]
UnknownMethodError == [kind |-> "unknown method", method |-> "", status |-> 0, raw |-> <<>>]
InvalidArgsError(method) ==
  [kind |-> "invalid args for method", method |-> method, status |-> 0, raw |-> <<>>]
ClientError(method, status) ==
  [kind |-> "Client error", method |-> method, status |-> status, raw |-> <<>>]
ServerError(method, status) ==
  [kind |-> "Server error", method |-> method, status |-> status, raw |-> <<>>]
ParseError(chunk) ==
  [kind |-> "failed to parse response", method |-> "", status |-> 0, raw |-> chunk]

Pending == [state |-> "pending", value |-> Undefined, error |-> NoError]
PromiseReject(e) == [state |-> "rejected", value |-> Undefined, error |-> e]
\* resolve without the settle-once rule of a promise
resolveUnguarded(p, v) ==
  [state |-> "fulfilled", value |-> v, error |-> NoError]
resolve(p, v) ==
  IF p.state = "pending" THEN [state |-> "fulfilled", value |-> v, error |-> NoError] ELSE p
reject(p, e) ==
  IF p.state = "pending" THEN [state |-> "rejected", value |-> Undefined, error |-> e] ELSE p

(***************************************************************************)
(* The client instances and the calls.                                     *)
(***************************************************************************)
InstIds == {"a", "b"}

\* new BitcoinClient({host, port, user, password})
BitcoinClient(host, port, user, password) ==
  [RPC_HOST |-> host, RPC_PORT |-> port, RPC_USER |-> user, RPC_PASSWORD |-> password]

NoRequest ==
  [created |-> FALSE, auth |-> "", host |-> "", port |-> 0, method |-> "",
   contentType |-> "", written |-> <<>>, writes |-> 0, ended |-> FALSE,
   lateWrites |-> 0, requests |-> 0]

\* http.request with the method left at its default
HttpRequestDefaultMethod(client) ==
  [NoRequest EXCEPT !.created = TRUE,
                    !.requests = 1,
                    !.auth = client.RPC_USER \o ":" \o client.RPC_PASSWORD,
                    !.host = client.RPC_HOST,
                    !.port = client.RPC_PORT,
                    !.method = "GET",
                    !.contentType = "text/plain"]
\* http.request(options, callback)
HttpRequest(client) ==
  [NoRequest EXCEPT !.created = TRUE,
                    !.requests = 1,
                    !.auth = client.RPC_USER \o ":" \o client.RPC_PASSWORD,
                    !.host = client.RPC_HOST,
                    !.port = client.RPC_PORT,
                    !.method = "POST",
                    !.contentType = "text/plain"]

\* req.write(data): after req.end() nothing is written any more
ReqWrite(r, data) ==
  IF r.ended THEN [r EXCEPT !.lateWrites = @ + 1]
  ELSE [r EXCEPT !.written = @ \o data, !.writes = @ + 1]

\* a request whose send side stays open
ReqEndOmitted(r) == r
\* req.end()
ReqEnd(r) == [r EXCEPT !.ended = TRUE]

IdleCall ==
  [phase |-> "idle", inst |-> "", method |-> "", args |-> <<>>,
   promise |-> Pending, settles |-> 0, req |-> NoRequest,
   status |-> 0, body |-> <<>>, chunks |-> <<>>, listening |-> FALSE]

\* the text of the request: JSON.stringify({"jsonrpc": "1.0", "id": "curltest",
\* "method": method, "params": args}, null, 0)
DataBinaryEmptyParams(method, args) ==
  JSONstringify(Obj(<<"jsonrpc", "id", "method", "params">>,
                    <<Str("1.0"), Str("curltest"), Str(method), Arr(<<>>)>>))
\* a request text whose id differs from call to call
DataBinaryIdFromMethod(method, args) ==
  JSONstringify(Obj(<<"jsonrpc", "id", "method", "params">>,
                    <<Str("1.0"), Str(method), Str(method), Arr(args)>>))
DataBinary(method, args) ==
  JSONstringify(Obj(<<"jsonrpc", "id", "method", "params">>,
                    <<Str("1.0"), Str("curltest"), Str(method), Arr(args)>>))

\* a status check without its server-error branch
StatusCheckClientOnly(p, method, status) ==
  IF status > 400 /\ status < 500 THEN reject(p, ClientError(method, status))
  ELSE p
\* what the status check of the response callback does to the promise
StatusCheck(p, method, status) ==
  IF status > 400 /\ status < 500 THEN reject(p, ClientError(method, status))
  ELSE IF status > 500 /\ status < 600 THEN reject(p, ServerError(method, status))
  ELSE p

\* the status check calls reject
StatusRejects(status) ==
  StatusCheck(Pending, "", status).state = "rejected"

\* the 'data' handler: try { resolve(JSON.parse(chunk).result) } catch { reject(...) }
OnDataWholeResponse(p, chunk) ==
  LET response == JSONparse(chunk) IN
  IF response.ok /\ ~MemberThrows(response.v)
  THEN resolve(p, response.v)
  ELSE reject(p, ParseError(chunk))
OnData(p, chunk) ==
  LET response == JSONparse(chunk) IN
  IF response.ok /\ ~MemberThrows(response.v)
  THEN resolve(p, GetMember(response.v, "result"))
  ELSE reject(p, ParseError(chunk))

(***************************************************************************)
(* The inputs: method names, argument lists, status codes and bodies.      *)
(***************************************************************************)
Methods == {"getblockcount", "getblock", "GetBlock", "nosuchmethod", "toString"}

\* an argument list as a caller passes it; given = FALSE when none is passed
\* and the default parameter args = [] applies
NoArgs == [given |-> FALSE, list |-> <<>>]
Args(list) == [given |-> TRUE, list |-> list]
ArgInputs ==
  { NoArgs,
    Args(<<>>),
    Args(<<Str("00ab"), Num(1)>>),
    Args(<<Str("00ab"), Undefined>>),
    Args(<<Undefined, Bool(FALSE), Num(42)>>),
    Args(<<Arr(<<Str("tx1"), Str("tx2")>>), Null>>),
    Args(<<Obj(<<"k">>, <<Arr(<<Bool(TRUE), Null, Num(-5)>>)>>), Str("basic")>>) }

Statuses == {200, 399, 400, 401, 404, 499, 500, 501, 503, 599, 600}

ResultBody == JSONstringify(Obj(<<"result", "error">>, <<Num(42), Null>>))
ErrorBody ==
  JSONstringify(Obj(<<"result", "error">>,
                    <<Null, Obj(<<"code", "message">>, <<Num(-5), Str("not found")>>)>>))
Bodies ==
  { <<>>, ResultBody, ErrorBody,
    <<"not-", "json">>, <<"null">>, <<"42">>, <<"\"basic\"">>, <<"{", "}">>,
    <<"{", "}", "not-json">> }

\* the last direct call of isValidArgsForMethod and what it did
NoCheck == [done |-> FALSE, method |-> "", args |-> <<>>, outcome |-> Returns(FALSE)]
Check(method, args, outcome) ==
  [done |-> TRUE, method |-> method, args |-> args, outcome |-> outcome]

(***************************************************************************)
(* The operations.                                                         *)
(***************************************************************************)
\* the instances, as their constructors leave them
Constructed ==
  [i \in InstIds |->
     IF i = "a" THEN BitcoinClient("192.168.0.100", 8332, "alice", "pw-a")
     ELSE BitcoinClient("192.168.0.101", 18332, "bob", "pw-b")]

Init ==
  /\ RPC = RPCTable
  /\ clients = Constructed
  /\ calls = [c \in CallIds |-> IdleCall]
  /\ checked = NoCheck

\* the argument check of __send is a comment (TODO: parse args): every
\* argument list passes it
ArgsCheckEnforced(table, method, args) ==
  isValidArgsForMethod(table, method, args) = Returns(TRUE)
ArgsCheck(table, method, args) == TRUE

\* the instances after instance i ran __send: __send reads this.RPC_HOST,
\* this.RPC_PORT, this.RPC_USER and this.RPC_PASSWORD and assigns no field
AfterSendForgetsPassword(cl, i) == [cl EXCEPT ![i].RPC_PASSWORD = ""]
AfterSend(cl, i) == cl

\* client.__send(method, args), up to its return
__send(c, i, method, argsIn) ==
  /\ calls[c].phase = "idle"
  /\ LET args == IF argsIn.given THEN argsIn.list ELSE <<>>
         started == [calls[c] EXCEPT !.inst = i, !.method = method, !.args = args]
     IN IF ~isKnownMethod(RPC, method)
        THEN calls' = [calls EXCEPT ![c] =
               [started EXCEPT !.phase = "returned",
                               !.promise = PromiseReject(UnknownMethodError),
                               !.settles = 1]]
        ELSE IF ~ArgsCheck(RPC, method, args)
        THEN calls' = [calls EXCEPT ![c] =
               [started EXCEPT !.phase = "returned",
                               !.promise = PromiseReject(InvalidArgsError(method)),
                               !.settles = 1]]
        ELSE calls' = [calls EXCEPT ![c] =
               [started EXCEPT !.phase = "sent",
                               !.req = ReqEnd(ReqWrite(HttpRequest(clients[i]),
                                                       DataBinary(method, args)))]]
  /\ RPC' = AfterLookup(RPC, method)
  /\ clients' = AfterSend(clients, i)
  /\ UNCHANGED checked

\* the variables the callbacks of invocation c close over (method, resolve,
\* reject): those of that invocation, whatever other invocations exist
ClosureSharedMethod(cs, c) ==
  IF \E d \in DOMAIN cs : d # c /\ cs[d].phase # "idle"
  THEN [cs[c] EXCEPT !.method =
          cs[CHOOSE d \in DOMAIN cs : d # c /\ cs[d].phase # "idle"].method]
  ELSE cs[c]
Closure(cs, c) == cs[c]

\* res.on('data', ...) is reached whatever the status check did
DataListenerUnlessRejected(status) == ~StatusRejects(status)
DataListener(status) == TRUE

\* the response callback: the status check, then the 'data' listener
ResponseCallbackRetry(call, status, body) ==
  [call EXCEPT !.phase = "response",
               !.status = status,
               !.body = body,
               !.promise = StatusCheck(@, call.method, status),
               !.settles = IF StatusRejects(status) THEN @ + 1 ELSE @,
               !.listening = DataListener(status),
               !.req = IF StatusRejects(status)
                       THEN [@ EXCEPT !.requests = @ + 1] ELSE @]
ResponseCallback(call, status, body) ==
  [call EXCEPT !.phase = "response",
               !.status = status,
               !.body = body,
               !.promise = StatusCheck(@, call.method, status),
               !.settles = IF StatusRejects(status) THEN @ + 1 ELSE @,
               !.listening = DataListener(status)]

\* whether the events of the exchange of invocation c can be delivered: every
\* http.request is an exchange of its own (no agent, queue or pipeline is
\* configured), so its events wait for no other exchange
MayDeliverInOrder(cs, c) ==
  \A d \in DOMAIN cs : d < c => cs[d].phase \notin {"sent", "response"}
MayDeliver(cs, c) == TRUE

\* the response callback runs: the status line and headers have arrived
OnResponse(c, status, body) ==
  /\ calls[c].phase = "sent"
  /\ MayDeliver(calls, c)
  /\ calls' = [calls EXCEPT ![c] = ResponseCallback(Closure(calls, c), status, body)]
  /\ UNCHANGED <<RPC, clients, checked>>

RECURSIVE Concat(_)
Concat(chunks) ==
  IF chunks = <<>> THEN <<>> ELSE Head(chunks) \o Concat(Tail(chunks))

Delivered(call) == Len(Concat(call.chunks))

\* a 'data' event: the next n tokens of the body arrive as one chunk; a
\* response without a 'data' listener is not read
OnDataEvent(c, n) ==
  /\ calls[c].phase = "response"
  /\ calls[c].listening
  /\ MayDeliver(calls, c)
  /\ Len(calls[c].chunks) < MaxChunks
  /\ n >= 1
  /\ Delivered(calls[c]) + n <= Len(calls[c].body)
  /\ Len(calls[c].chunks) = MaxChunks - 1 => Delivered(calls[c]) + n = Len(calls[c].body)
  /\ LET from == Delivered(calls[c])
         chunk == SubSeq(calls[c].body, from + 1, from + n)
     IN calls' = [calls EXCEPT ![c] =
          [@ EXCEPT !.chunks = Append(@, chunk),
                    !.promise = OnData(@, chunk),
                    !.settles = @ + 1]]
  /\ UNCHANGED <<RPC, clients, checked>>

OnDataEvents(c) == \E n \in 1..Len(calls[c].body) : OnDataEvent(c, n)

\* the 'end' event of the response: the whole body was read and the connection
\* of the exchange is released; the code listens to no 'end' event
OnEnd(c) ==
  /\ calls[c].phase = "response"
  /\ calls[c].listening
  /\ Delivered(calls[c]) = Len(calls[c].body)
  /\ calls' = [calls EXCEPT ![c] = [@ EXCEPT !.phase = "end"]]
  /\ UNCHANGED <<RPC, clients, checked>>

\* the 'error' event of the request (connection refused, reset, DNS failure):
\* the code listens to no 'error' event
OnError(c) ==
  /\ calls[c].phase = "sent"
  /\ calls' = [calls EXCEPT ![c] = [@ EXCEPT !.phase = "error"]]
  /\ UNCHANGED <<RPC, clients, checked>>

StepOn(c, insts, methods, argIns, statuses, bodies) ==
  \/ \E i \in insts, method \in methods, argsIn \in argIns : __send(c, i, method, argsIn)
  \/ \E status \in statuses, body \in bodies : OnResponse(c, status, body)
  \/ OnDataEvents(c)
  \/ OnEnd(c)
  \/ OnError(c)

Step(c) == StepOn(c, InstIds, Methods, ArgInputs, Statuses, Bodies)

\* one call at a time, over all the inputs
Next == \E c \in {1} : Step(c)

Spec == Init /\ [][Next]_vars

(***************************************************************************)
(* Concurrent calls: every call of CallIds can be in flight, in any        *)
(* interleaving of their events, over a smaller set of inputs.             *)
(***************************************************************************)
ConcMethods  == {"getblockcount", "getblock", "nosuchmethod"}
ConcArgs     == {NoArgs}
ConcStatuses == {200, 404}
ConcBodies   == { <<>>, <<"{", "}">> }

ConcNext ==
  \E c \in CallIds : StepOn(c, InstIds, ConcMethods, ConcArgs, ConcStatuses, ConcBodies)

SpecConc == Init /\ [][ConcNext]_vars

\* the invocations named in the order they are made: call c is made when
\* every call of a smaller id has been made
InOrder(c) ==
  calls[c].phase = "idle" => \A d \in CallIds : d < c => calls[d].phase # "idle"

OrderNext ==
  \E c \in CallIds :
    InOrder(c) /\ StepOn(c, {"a"}, ConcMethods, ConcArgs, ConcStatuses, ConcBodies)

SpecOrder == Init /\ [][OrderNext]_vars

\* the server sends the whole response and the runtime delivers every event
\* of a response that has a 'data' listener
FairMethods  == {"getblockcount", "nosuchmethod"}
FairStatuses == {200, 404, 503}

FairNext ==
  \E c \in CallIds : StepOn(c, {"a"}, FairMethods, ConcArgs, FairStatuses, ConcBodies)

FairSpec ==
  /\ Init
  /\ [][FairNext]_vars
  /\ \A c \in CallIds : WF_vars(OnDataEvents(c)) /\ WF_vars(OnEnd(c))

(***************************************************************************)
(* The public wrappers, one method of the class per line of the source:    *)
(* name(p1, p2 = default, ...) { return this.__send('method', [p1, p2]) }. *)
(* A wrapper without parameters passes no argument list.  A wrapper is     *)
(* written here with its name, the method name it passes and, for each of  *)
(* its parameters, whether the parameter has a default value.              *)
(***************************************************************************)
\* a wrapper that passes a name of its own spelling
WrapperMisspelt(name, method, defaults) ==
  [name |-> name, method |-> method \o "s", defaults |-> defaults]
Wrapper(name, method, defaults) ==
  [name |-> name, method |-> method, defaults |-> defaults]

Wrappers ==
  {
    Wrapper("getbestblockhash", "getbestblockhash", <<>>),
    Wrapper("getblock", "getblock", <<FALSE, TRUE>>),
    Wrapper("getblockchaininfo", "getblockchaininfo", <<>>),
    Wrapper("getblockcount", "getblockcount", <<>>),
    Wrapper("getblockfilter", "getblockfilter", <<FALSE, FALSE>>),
    Wrapper("getblockhash", "getblockhash", <<FALSE>>),
    Wrapper("getblockheader", "getblockheader", <<FALSE, FALSE>>),
    Wrapper("getblockstats", "getblockstats", <<FALSE, FALSE>>),
    Wrapper("getchaintips", "getchaintips", <<>>),
    Wrapper("getchaintxstats", "getchaintxstats", <<FALSE, FALSE>>),
    Wrapper("getdifficulty", "getdifficulty", <<>>),
    Wrapper("getmempoolancestors", "getmempoolancestors", <<FALSE, TRUE>>),
    Wrapper("getmempooldescendants", "getmempooldescendants", <<FALSE, TRUE>>),
    Wrapper("getmempoolentry", "getmempoolentry", <<FALSE>>),
    Wrapper("getmempoolinfo", "getmempoolinfo", <<>>),
    Wrapper("getrawmempool", "getrawmempool", <<TRUE, TRUE>>),
    Wrapper("gettxout", "gettxout", <<FALSE, FALSE, TRUE>>),
    Wrapper("gettxoutproof", "gettxoutproof", <<FALSE, FALSE>>),
    Wrapper("gettxoutsetinfo", "gettxoutsetinfo", <<FALSE>>),
    Wrapper("preciousblock", "preciousblock", <<FALSE>>),
    Wrapper("pruneblockchain", "pruneblockchain", <<FALSE>>),
    Wrapper("savemempool", "savemempool", <<>>),
    Wrapper("scantxoutset", "scantxoutset", <<FALSE, FALSE>>),
    Wrapper("verifychain", "verifychain", <<TRUE, TRUE>>),
    Wrapper("verifytxoutproof", "verifytxoutproof", <<FALSE>>),
    Wrapper("getmemoryinfo", "getmemoryinfo", <<FALSE>>),
    Wrapper("getrpcinfo", "getrpcinfo", <<>>),
    Wrapper("help", "help", <<FALSE>>),
    Wrapper("logging", "logging", <<FALSE, FALSE>>),
    Wrapper("stop", "stop", <<>>),
    Wrapper("uptime", "uptime", <<>>),
    Wrapper("generateblock", "generateblock", <<FALSE, FALSE>>),
    Wrapper("generatetoaddress", "generatetoaddress", <<FALSE, FALSE, FALSE>>),
    Wrapper("generatetodescriptor", "generatetodescriptor", <<FALSE, FALSE, FALSE>>),
    Wrapper("getblocktemplate", "getblocktemplate", <<FALSE>>),
    Wrapper("getmininginfo", "getmininginfo", <<>>),
    Wrapper("getnetworkhashps", "getnetworkhashps", <<FALSE, FALSE>>),
    Wrapper("prioritisetransaction", "prioritisetransaction", <<FALSE, FALSE, FALSE>>),
    Wrapper("submitblock", "submitblock", <<FALSE, FALSE>>),
    Wrapper("submitheader", "submitheader", <<FALSE>>),
    Wrapper("addnode", "addnode", <<FALSE, FALSE>>),
    Wrapper("clearbanned", "clearbanned", <<>>),
    Wrapper("disconnectnode", "disconnectnode", <<FALSE, FALSE>>),
    Wrapper("getaddednodeinfo", "getaddednodeinfo", <<FALSE>>),
    Wrapper("getconnectioncount", "getconnectioncount", <<>>),
    Wrapper("getnettotals", "getnettotals", <<>>),
    Wrapper("getnetworkinfo", "getnetworkinfo", <<>>),
    Wrapper("getnodeaddresses", "getnodeaddresses", <<FALSE>>),
    Wrapper("getpeerinfo", "getpeerinfo", <<>>),
    Wrapper("listbanned", "listbanned", <<>>),
    Wrapper("ping", "ping", <<>>),
    Wrapper("setban", "setban", <<FALSE, FALSE, FALSE, FALSE>>),
    Wrapper("setnetworkactive", "setnetworkactive", <<FALSE>>),
    Wrapper("analyzepsbt", "analyzepsbt", <<FALSE>>),
    Wrapper("combinepsbt", "combinepsbt", <<FALSE>>),
    Wrapper("combinerawtransaction", "combinerawtransaction", <<FALSE>>),
    Wrapper("converttopsbt", "converttopsbt", <<FALSE, TRUE, FALSE>>),
    Wrapper("createpsbt", "createpsbt", <<FALSE, FALSE, TRUE, TRUE>>),
    Wrapper("createrawtransaction", "createrawtransaction", <<FALSE, FALSE, TRUE, FALSE>>),
    Wrapper("decodepsbt", "decodepsbt", <<FALSE>>),
    Wrapper("decoderawtransaction", "decoderawtransaction", <<FALSE, FALSE>>),
    Wrapper("decodescript", "decodescript", <<FALSE>>),
    Wrapper("finalizepsbt", "finalizepsbt", <<FALSE, TRUE>>),
    Wrapper("fundrawtransaction", "fundrawtransaction", <<FALSE, FALSE, FALSE>>),
    Wrapper("getrawtransaction", "getrawtransaction", <<FALSE, TRUE, FALSE>>),
    Wrapper("joinpsbts", "joinpsbts", <<FALSE>>),
    Wrapper("sendrawtransaction", "sendrawtransaction", <<FALSE, TRUE>>),
    Wrapper("signrawtransactionwithkey", "signrawtransactionwithkey", <<FALSE, FALSE, FALSE, TRUE>>),
    Wrapper("testmempoolaccept", "testmempoolaccept", <<FALSE, TRUE>>),
    Wrapper("utxoupdatepsbt", "utxoupdatepsbt", <<FALSE, FALSE>>),
    Wrapper("createmultisig", "createmultisig", <<FALSE, FALSE, TRUE>>),
    Wrapper("deriveaddresses", "deriveaddresses", <<FALSE, FALSE>>),
    Wrapper("estimatesmartfee", "estimatesmartfee", <<FALSE, FALSE>>),
    Wrapper("getdescriptorinfo", "getdescriptorinfo", <<FALSE>>),
    Wrapper("getindexinfo", "getindexinfo", <<FALSE>>),
    Wrapper("signmessagewithprivkey", "signmessagewithprivkey", <<FALSE, FALSE>>),
    Wrapper("validateaddress", "validateaddress", <<FALSE>>),
    Wrapper("verifymessage", "verifymessage", <<FALSE, FALSE, FALSE>>),
    Wrapper("abandontransaction", "abandontransaction", <<FALSE>>),
    Wrapper("abortrescan", "abortrescan", <<>>),
    Wrapper("addmultisigaddress", "addmultisigaddress", <<FALSE, FALSE, FALSE, FALSE>>),
    Wrapper("backupwallet", "backupwallet", <<FALSE>>),
    Wrapper("bumpfee", "bumpfee", <<FALSE, FALSE>>),
    Wrapper("createwallet", "createwallet", <<FALSE, TRUE, TRUE, FALSE, TRUE, TRUE, FALSE>>),
    Wrapper("dumpprivkey", "dumpprivkey", <<FALSE>>),
    Wrapper("dumpwallet", "dumpwallet", <<FALSE>>),
    Wrapper("encryptwallet", "encryptwallet", <<FALSE>>),
    Wrapper("getaddressesbylabel", "getaddressesbylabel", <<FALSE>>),
    Wrapper("getaddressinfo", "getaddressinfo", <<FALSE>>),
    Wrapper("getbalance", "getbalance", <<FALSE, TRUE, TRUE, TRUE>>),
    Wrapper("getbalances", "getbalances", <<>>),
    Wrapper("getnewaddress", "getnewaddress", <<FALSE, FALSE>>),
    Wrapper("getrawchangeaddress", "getrawchangeaddress", <<FALSE>>),
    Wrapper("getreceivedbyaddress", "getreceivedbyaddress", <<FALSE, TRUE>>),
    Wrapper("getreceivedbylabel", "getreceivedbylabel", <<FALSE, FALSE>>),
    Wrapper("gettransaction", "gettransaction", <<FALSE, TRUE, TRUE>>),
    Wrapper("getunconfirmedbalance", "getunconfirmedbalance", <<>>),
    Wrapper("getwalletinfo", "getwalletinfo", <<>>),
    Wrapper("importaddress", "importaddress", <<FALSE, TRUE, TRUE, TRUE>>),
    Wrapper("importdescriptors", "importdescriptors", <<FALSE>>),
    Wrapper("importmulti", "importmulti", <<FALSE, FALSE>>),
    Wrapper("importprivkey", "importprivkey", <<FALSE, FALSE, FALSE>>),
    Wrapper("importprunedfunds", "importprunedfunds", <<FALSE, FALSE>>),
    Wrapper("importpubkey", "importpubkey", <<FALSE, TRUE, TRUE>>),
    Wrapper("importwallet", "importwallet", <<FALSE>>),
    Wrapper("keypoolrefill", "keypoolrefill", <<FALSE>>),
    Wrapper("listaddressgroupings", "listaddressgroupings", <<>>),
    Wrapper("listlabels", "listlabels", <<FALSE>>),
    Wrapper("listlockunspent", "listlockunspent", <<>>),
    Wrapper("listreceivedbyaddress", "listreceivedbyaddress", <<TRUE, TRUE, TRUE, FALSE>>),
    Wrapper("listreceivedbylabel", "listreceivedbylabel", <<TRUE, TRUE, TRUE>>),
    Wrapper("listsinceblock", "listsinceblock", <<FALSE, TRUE, TRUE, TRUE>>),
    Wrapper("listtransactions", "listtransactions", <<FALSE, TRUE, TRUE, TRUE>>),
    Wrapper("listunspent", "listunspent", <<TRUE, TRUE, TRUE, TRUE, FALSE>>),
    Wrapper("listwalletdir", "listwalletdir", <<>>),
    Wrapper("listwallets", "listwallets", <<>>),
    Wrapper("loadwallet", "loadwallet", <<FALSE, FALSE>>),
    Wrapper("lockunspent", "lockunspent", <<FALSE, FALSE>>),
    Wrapper("psbtbumpfee", "psbtbumpfee", <<FALSE, FALSE>>),
    Wrapper("removeprunedfunds", "removeprunedfunds", <<FALSE>>),
    Wrapper("rescanblockchain", "rescanblockchain", <<FALSE, FALSE>>),
    Wrapper("send", "send", <<FALSE, FALSE, TRUE, FALSE, FALSE>>),
    Wrapper("sendmany", "sendmany", <<TRUE, FALSE, FALSE, FALSE, FALSE, FALSE, FALSE, TRUE, FALSE>>),
    Wrapper("sendtoaddress", "sendtoaddress", <<FALSE, FALSE, FALSE, FALSE, TRUE, FALSE, FALSE, TRUE, TRUE, TRUE>>),
    Wrapper("sethdseed", "sethdseed", <<TRUE, FALSE>>),
    Wrapper("setlabel", "setlabel", <<FALSE, FALSE>>),
    Wrapper("settxfee", "settxfee", <<FALSE>>),
    Wrapper("setwalletflag", "setwalletflag", <<FALSE, TRUE>>),
    Wrapper("signmessage", "signmessage", <<FALSE, FALSE>>),
    Wrapper("signrawtransactionwithwallet", "signrawtransactionwithwallet", <<FALSE, FALSE, TRUE>>),
    Wrapper("unloadwallet", "unloadwallet", <<FALSE, TRUE>>),
    Wrapper("upgradewallet", "upgradewallet", <<FALSE>>),
    Wrapper("walletcreatefundedpsbt", "walletcreatefundedpsbt", <<FALSE, FALSE, TRUE, FALSE, TRUE>>),
    Wrapper("walletlock", "walletlock", <<>>),
    Wrapper("walletpassphrase", "walletpassphrase", <<FALSE, FALSE>>),
    Wrapper("walletpassphrasechange", "walletpassphrasechange", <<FALSE, FALSE>>),
    Wrapper("walletprocesspsbt", "walletprocesspsbt", <<FALSE, TRUE, TRUE, TRUE>>) }

\* the argument lists a wrapper can build: a parameter without a default is
\* undefined when the caller leaves it out; a parameter with a default never
\* is (its default stands in, here the number 1)
WrapperArgs(w) ==
  LET optional == {j \in 1..Len(w.defaults) : ~w.defaults[j]} IN
  { [j \in 1..Len(w.defaults) |->
       IF w.defaults[j] THEN Num(1)
       ELSE IF j \in given THEN Str("00ab") ELSE Undefined] :
    given \in SUBSET optional }

\* client.name(...): the wrapper calls __send with its method name and the
\* list of its parameters
CallWrapper(c, i, w, passed) ==
  __send(c, i, w.method, IF w.defaults = <<>> THEN NoArgs ELSE Args(passed))

WrapNext ==
  \E c \in {1} :
    \/ \E w \in Wrappers : \E passed \in WrapperArgs(w) : CallWrapper(c, "a", w, passed)
    \/ \E status \in ConcStatuses, body \in ConcBodies : OnResponse(c, status, body)
    \/ OnDataEvents(c)
    \/ OnEnd(c)
    \/ OnError(c)

SpecWrap == Init /\ [][WrapNext]_vars

(***************************************************************************)
(* The helper called on its own: isValidArgsForMethod is exported and no   *)
(* code of the client calls it.                                            *)
(***************************************************************************)
HelperMethods == RPCNames \cup ObjectPrototype \cup {"GetBlock", "nosuchmethod"}

\* helper.isValidArgsForMethod(method, args); args = [] when none is passed
CallIsValidArgsForMethod(method, argsIn) ==
  /\ LET args == IF argsIn.given THEN argsIn.list ELSE <<>>
     IN checked' = Check(method, args, isValidArgsForMethod(RPC, method, args))
  /\ UNCHANGED <<RPC, clients, calls>>

HelperNext ==
  \E method \in HelperMethods, argsIn \in ArgInputs :
    CallIsValidArgsForMethod(method, argsIn)

SpecHelper == Init /\ [][HelperNext]_vars

(***************************************************************************)
(* The properties.                                                         *)
(***************************************************************************)
Started(c)   == calls[c].phase # "idle"
Responded(c) == calls[c].phase \in {"response", "end"}
Settled(c)   == calls[c].promise.state # "pending"

\* the status classes of the specification: client errors are [400,500),
\* server errors [500,600), every other status is on the success path
ClientStatus(s)  == s >= 400 /\ s < 500
ServerStatus(s)  == s >= 500 /\ s < 600
SuccessStatus(s) == ~ClientStatus(s) /\ ~ServerStatus(s)

\* a value made of strings, numbers, booleans, nulls, arrays and objects only
RECURSIVE IsJsonValue(_)
IsJsonValue(v) ==
  /\ v.t \in {"null", "bool", "num", "str", "arr", "obj"}
  /\ \A j \in 1..Len(v.a) : IsJsonValue(v.a[j])

\* C1: a call of a method name that is no key of the registry is rejected with
\* the unknown-method error and creates, writes and ends no HTTP request.
C1_UnknownMethodNoNetwork ==
  \A c \in CallIds :
    (Started(c) /\ calls[c].method \notin DOMAIN RPCTable) =>
      /\ calls[c].promise = PromiseReject(UnknownMethodError)
      /\ calls[c].req = NoRequest

\* C2: the request body written for a call decodes to an object whose method
\* member is the method name and whose params member is the argument list,
\* element by element, for every argument list of JSON values.
C2_RequestRoundTrip ==
  \A c \in CallIds :
    (calls[c].req.created /\ IsJsonValue(Arr(calls[c].args))) =>
      LET decoded == JSONparse(calls[c].req.written) IN
      /\ decoded.ok
      /\ GetMember(decoded.v, "method") = Str(calls[c].method)
      /\ GetMember(decoded.v, "params") = Arr(calls[c].args)
      /\ Len(GetMember(decoded.v, "params").a) = Len(calls[c].args)

C2_Witness ==
  \E c \in CallIds :
    /\ calls[c].req.created
    /\ calls[c].method \in DOMAIN RPCTable
    /\ IsJsonValue(Arr(calls[c].args))
    /\ \E j \in 1..Len(calls[c].args) : calls[c].args[j].t = "obj"
    /\ calls[c].req.written = DataBinary(calls[c].method, calls[c].args)

\* C3: on the success path, a body that is a JSON object and arrives as one
\* chunk makes the call resolve with the value of the object's result member;
\* the body {"result":42,"error":null} resolves to 42.
C3_OneChunkResolvesResult ==
  \A c \in CallIds :
    (/\ Responded(c)
     /\ SuccessStatus(calls[c].status)
     /\ calls[c].chunks = <<calls[c].body>>
     /\ JSONparse(calls[c].body).ok
     /\ JSONparse(calls[c].body).v.t = "obj") =>
      /\ calls[c].promise.state = "fulfilled"
      /\ calls[c].promise.value = GetMember(JSONparse(calls[c].body).v, "result")
      /\ calls[c].body = ResultBody => calls[c].promise.value = Num(42)

C3_Witness ==
  \E c \in CallIds :
    /\ calls[c].phase = "end"
    /\ calls[c].method \in DOMAIN RPCTable
    /\ calls[c].status = 200
    /\ calls[c].body = ResultBody
    /\ calls[c].chunks = <<ResultBody>>
    /\ calls[c].promise.state = "fulfilled"
    /\ calls[c].promise.value = Num(42)

\* C4: a response with status 200 whose body is an envelope with a non-null
\* error member makes the call reject with an application error that carries
\* the remote error code; the call does not resolve with the result member.
C4_ErrorMemberRejects ==
  \A c \in CallIds :
    (/\ calls[c].phase = "end"
     /\ calls[c].status = 200
     /\ calls[c].chunks = <<calls[c].body>>
     /\ JSONparse(calls[c].body).ok
     /\ HasMember(JSONparse(calls[c].body).v, "error")
     /\ GetMember(JSONparse(calls[c].body).v, "error").t = "obj") =>
      /\ calls[c].promise.state = "rejected"
      /\ calls[c].promise.error.kind = "application error"
      /\ calls[c].promise.error.status =
           GetMember(GetMember(JSONparse(calls[c].body).v, "error"), "code").n

\* C5: every status in [400,500) makes the call reject with the client error
\* that carries the method name and the status code.
C5_ClientErrorRejects ==
  \A c \in CallIds :
    (Responded(c) /\ ClientStatus(calls[c].status)) =>
      calls[c].promise = PromiseReject(ClientError(calls[c].method, calls[c].status))

\* C6: every status in [500,600) makes the call reject with the server error
\* that carries the method name and the status code.
C6_ServerErrorRejects ==
  \A c \in CallIds :
    (Responded(c) /\ ServerStatus(calls[c].status)) =>
      calls[c].promise = PromiseReject(ServerError(calls[c].method, calls[c].status))

\* C7: on the success path, a body that is not valid JSON makes the call
\* reject with the decode error whose message holds the whole raw body.
C7_InvalidBodyRejectsWithRaw ==
  \A c \in CallIds :
    (/\ calls[c].phase = "end"
     /\ SuccessStatus(calls[c].status)
     /\ ~JSONparse(calls[c].body).ok) =>
      calls[c].promise = PromiseReject(ParseError(calls[c].body))

\* C8: a success-path body that arrives in two or more chunks is classified
\* as the concatenation of its chunks is: the outcome of the call is the
\* outcome of the whole body, and a valid envelope resolves with its result.
C8_ClassifiedOnFullBody ==
  \A c \in CallIds :
    (/\ calls[c].phase = "end"
     /\ SuccessStatus(calls[c].status)
     /\ Len(calls[c].chunks) >= 2) =>
      /\ calls[c].promise = OnData(Pending, Concat(calls[c].chunks))
      /\ calls[c].body = ResultBody => calls[c].promise.value = Num(42)

\* C9: a call settles at most once: once its promise is resolved or rejected,
\* no later step changes the promise, whatever resolve or reject call it makes.
C9_SettlesOnce ==
  [][\A c \in CallIds : Settled(c) => calls'[c].promise = calls[c].promise]_vars

\* a settled promise on which resolve or reject was called again
C9_Witness ==
  \E c \in CallIds :
    /\ Settled(c)
    /\ calls[c].settles >= 2
    /\ calls[c].chunks # <<>>

\* C10: once the response was delivered in full (status and body, the empty
\* body included) or the exchange failed, the promise of the call is settled.
C10_DeliveredResponseSettles ==
  \A c \in CallIds :
    calls[c].phase \in {"end", "error"} => Settled(c)

\* a promise resolved with value v
Fulfilled(v) == [state |-> "fulfilled", value |-> v, error |-> NoError]

\* the exchange of a call is open: its request was made and neither the
\* response ended nor the request failed
Open(c) == calls[c].req.created /\ calls[c].phase \in {"sent", "response"}

\* C11: a connection-level failure of the exchange makes the call reject with
\* a transport error.
C11_NetworkFailureRejects ==
  \A c \in CallIds :
    calls[c].phase = "error" =>
      /\ calls[c].promise.state = "rejected"
      /\ calls[c].promise.error.kind = "transport error"

\* C12: a call issues no HTTP request when its method is rejected as unknown
\* and exactly one otherwise; no failure outcome issues a second one.
C12_AtMostOneRequest ==
  \A c \in CallIds :
    /\ calls[c].req.requests <= 1
    /\ calls[c].req.created <=> calls[c].req.requests = 1
    /\ calls[c].promise = PromiseReject(UnknownMethodError) => calls[c].req.requests = 0

C12_Witness ==
  \E c \in CallIds :
    /\ calls[c].phase = "end"
    /\ calls[c].promise.state = "rejected"
    /\ calls[c].promise.error.kind \in {"Client error", "Server error", "failed to parse response"}
    /\ calls[c].req.requests = 1

RECURSIVE FoldData(_, _)
FoldData(p, chunks) ==
  IF chunks = <<>> THEN p ELSE FoldData(OnData(p, Head(chunks)), Tail(chunks))
SoloOutcome(call) ==
  CASE call.phase = "idle"              -> Pending
    [] call.phase = "returned"          -> PromiseReject(UnknownMethodError)
    [] call.phase \in {"sent", "error"} -> Pending
    [] OTHER -> FoldData(StatusCheck(Pending, call.method, call.status), call.chunks)

\* C14: whatever other calls are in flight and however their events
\* interleave, the promise of a call is the one its own request and response
\* give, and its request is the one of its own method and arguments.
C14_NoInterference ==
  \A c \in CallIds :
    /\ calls[c].promise = SoloOutcome(calls[c])
    /\ calls[c].req.created =>
         calls[c].req.written = DataBinary(calls[c].method, calls[c].args)

\* two calls in flight at once that settled differently
C14_Witness ==
  \E c, d \in CallIds :
    /\ c # d
    /\ calls[c].phase = "response" /\ calls[d].phase = "response"
    /\ calls[c].method # calls[d].method
    /\ calls[c].promise.state = "fulfilled"
    /\ calls[d].promise = PromiseReject(ClientError(calls[d].method, 404))

\* C15: isKnownMethod is true of a name exactly when the name is a key of the
\* registry, and no call of any other name makes a request.
C15_KnownIffRegistryKey ==
  \A c \in CallIds :
    Started(c) =>
      /\ isKnownMethod(RPC, calls[c].method) <=> calls[c].method \in DOMAIN RPC
      /\ calls[c].req.created => calls[c].method \in DOMAIN RPC

\* C16: the registry is the table it started as after any calls, and two calls
\* of the same name are both known or both unknown.
C16_RegistryReadOnly ==
  /\ RPC = RPCTable
  /\ \A c, d \in CallIds :
       (Started(c) /\ Started(d) /\ calls[c].method = calls[d].method) =>
         (calls[c].req.created <=> calls[d].req.created)

\* a second call of a name after a first call of it has settled
C16_Witness ==
  \E c, d \in CallIds :
    /\ c # d
    /\ calls[c].phase = "end" /\ Settled(c)
    /\ calls[d].method = calls[c].method
    /\ calls[d].req.created

\* C17: every request is a POST with Content-Type text/plain to the host and
\* port and with the user:password of the instance the call was made on, and
\* with the credentials of no other instance.
C17_RequestUsesOwnInstance ==
  \A c \in CallIds :
    calls[c].req.created =>
      LET own == clients[calls[c].inst] IN
      /\ calls[c].req.method = "POST"
      /\ calls[c].req.contentType = "text/plain"
      /\ calls[c].req.host = own.RPC_HOST
      /\ calls[c].req.port = own.RPC_PORT
      /\ calls[c].req.auth = own.RPC_USER \o ":" \o own.RPC_PASSWORD
      /\ \A j \in InstIds \ {calls[c].inst} :
           calls[c].req.auth # clients[j].RPC_USER \o ":" \o clients[j].RPC_PASSWORD

\* two requests in flight, one of each instance
C17_Witness ==
  \E c, d \in CallIds :
    /\ calls[c].req.created /\ calls[d].req.created
    /\ calls[c].inst = "a" /\ calls[d].inst = "b"
    /\ calls[c].req.auth = "alice:pw-a" /\ calls[d].req.auth = "bob:pw-b"

\* C18: with a status in 401..499 or 501..599 the call is rejected with the
\* status error from the response callback on, before any chunk and whatever
\* chunks follow; it never resolves.
C18_ErrorStatusNeverResolves ==
  \A c \in CallIds :
    (Responded(c) /\ (calls[c].status \in 401..499 \/ calls[c].status \in 501..599)) =>
      /\ calls[c].promise.state = "rejected"
      /\ calls[c].promise.error \in
           { ClientError(calls[c].method, calls[c].status),
             ServerError(calls[c].method, calls[c].status) }

\* an error status whose body is an envelope with a result
C18_Witness ==
  \E c \in CallIds :
    /\ calls[c].status = 503
    /\ calls[c].chunks = <<ResultBody>>
    /\ calls[c].promise = PromiseReject(ServerError(calls[c].method, 503))

\* C19: with status 400 or 500 no status error is made; once the response
\* was delivered the call has resolved with the result member of the body's
\* envelope, or is rejected with a parse failure when the body is no JSON.
C19_BoundaryFallsThrough ==
  \A c \in CallIds :
    (calls[c].phase = "end" /\ calls[c].status \in {400, 500}) =>
      LET r == JSONparse(calls[c].body) IN
      /\ calls[c].promise.error.kind \notin {"Client error", "Server error"}
      /\ (r.ok /\ r.v.t = "obj") =>
           calls[c].promise = Fulfilled(GetMember(r.v, "result"))
      /\ ~r.ok =>
           /\ calls[c].promise.state = "rejected"
           /\ calls[c].promise.error.kind = "failed to parse response"

\* C20: on the success path every body that is valid JSON makes the call
\* resolve with the result member of the decoded value; only a body that is
\* not valid JSON is rejected with a parse failure.
C20_ValidJsonResolves ==
  \A c \in CallIds :
    (/\ calls[c].phase = "end"
     /\ SuccessStatus(calls[c].status)
     /\ JSONparse(calls[c].body).ok) =>
      calls[c].promise = Fulfilled(GetMember(JSONparse(calls[c].body).v, "result"))
\* C21: argument arity and shape are not enforced: a call of a registry key,
\* with an argument list of any length and whatever the descriptor of the key
\* says, is not rejected before the exchange and its request is sent.
C21_ArgsNotEnforced ==
  \A c \in CallIds :
    (Started(c) /\ calls[c].method \in DOMAIN RPC) =>
      /\ calls[c].phase # "returned"
      /\ calls[c].req.created
      /\ calls[c].req.written = DataBinary(calls[c].method, calls[c].args)
      /\ calls[c].req.ended

\* a request was sent with an argument list longer than the args list of the
\* descriptor of its method
C21_Witness ==
  \E c \in CallIds :
    /\ calls[c].method = "getblock"
    /\ RPC["getblock"].args = "list"
    /\ Len(calls[c].args) > RPC["getblock"].argc
    /\ calls[c].req.created /\ calls[c].req.ended

\* C22: isValidArgsForMethod returns false for every method name and every
\* argument list and never throws, also for a known method whose entry has
\* no args list and for the entry whose args is a single object.
C22_AlwaysReturnsFalse ==
  checked.done => checked.outcome = Returns(FALSE)

\* C23: an undefined argument is not dropped from the request: the params
\* array of the request has the length of the argument list, holds null at
\* the position of every undefined argument and every other argument at its
\* own position; a call without an argument list sends an empty params array.
C23_UndefinedSentAsNull ==
  \A c \in CallIds :
    calls[c].req.created =>
      LET decoded == JSONparse(calls[c].req.written)
          params == GetMember(decoded.v, "params")
      IN /\ decoded.ok
         /\ params.t = "arr"
         /\ Len(params.a) = Len(calls[c].args)
         /\ \A j \in 1..Len(calls[c].args) :
              params.a[j] = IF calls[c].args[j] = Undefined THEN Null
                            ELSE calls[c].args[j]

\* a request whose first argument is undefined and is followed by arguments
\* that are not
C23_Witness ==
  \E c \in CallIds :
    /\ calls[c].req.created
    /\ Len(calls[c].args) = 3
    /\ calls[c].args[1] = Undefined
    /\ calls[c].args[3] = Num(42)
    /\ GetMember(JSONparse(calls[c].req.written).v, "params").a[3] = Num(42)

\* C24: every call that reaches the transport writes its request body exactly
\* once and in full and closes the send side after that write, writes nothing
\* after the end, and its response callback runs only after the request was
\* created.
C24_WrittenOnceThenEnded ==
  \A c \in CallIds :
    /\ calls[c].req.created =>
         /\ calls[c].req.writes = 1
         /\ calls[c].req.written = DataBinary(calls[c].method, calls[c].args)
         /\ calls[c].req.ended
         /\ calls[c].req.lateWrites = 0
    /\ (Responded(c) \/ calls[c].listening \/ calls[c].chunks # <<>>) =>
         calls[c].req.created

\* the response callback has run for a request that was written and ended
C24_Witness ==
  \E c \in CallIds :
    /\ Responded(c)
    /\ calls[c].listening
    /\ calls[c].args # <<>>
    /\ calls[c].req.writes = 1
    /\ calls[c].req.ended

\* the envelope of the request of call c, decoded from the text written
Envelope(c) == JSONparse(calls[c].req.written)

\* C25: every request envelope carries jsonrpc "1.0" and the id "curltest",
\* whatever the method and however many calls were made before; the requests
\* of two concurrent calls carry the same id.
C25_ConstantEnvelope ==
  LET sent == {c \in CallIds : calls[c].req.created}
      envelope == [c \in sent |-> Envelope(c)]
      id == [c \in sent |-> GetMember(envelope[c].v, "id")]
  IN /\ \A c \in sent :
          /\ envelope[c].ok
          /\ GetMember(envelope[c].v, "jsonrpc") = Str("1.0")
          /\ id[c] = Str("curltest")
     /\ \A c, d \in sent : id[c] = id[d]

\* two calls of different methods are in flight at once
C25_Witness ==
  \E c, d \in CallIds :
    /\ c # d
    /\ Open(c) /\ Open(d)
    /\ calls[c].method # calls[d].method
    /\ HasMember(Envelope(c).v, "id") /\ HasMember(Envelope(d).v, "id")

\* C26: the host, port, user and password of every instance are, after any
\* calls (resolved, rejected or of an unknown method), those its constructor
\* set.
C26_CredentialsReadOnly ==
  \A i \in InstIds :
    /\ clients[i].RPC_HOST = Constructed[i].RPC_HOST
    /\ clients[i].RPC_PORT = Constructed[i].RPC_PORT
    /\ clients[i].RPC_USER = Constructed[i].RPC_USER
    /\ clients[i].RPC_PASSWORD = Constructed[i].RPC_PASSWORD

\* one instance has made a call that resolved and a call that was rejected
C26_Witness ==
  \E c, d \in CallIds :
    /\ calls[c].inst = calls[d].inst
    /\ calls[c].promise.state = "fulfilled"
    /\ calls[d].promise.state = "rejected"
    /\ calls[d].phase \in {"returned", "end"}

\* C27: no order is imposed between calls: the response of a call that is
\* waiting for it can always arrive, and a chunk of a response that is being
\* read can always arrive, whatever the other calls are doing; so a call made
\* later can settle while a call made earlier is still pending.
C27_NoOrderBetweenCalls ==
  \A c \in CallIds :
    /\ calls[c].phase = "sent" =>
         \A status \in ConcStatuses, body \in ConcBodies :
           ENABLED OnResponse(c, status, body)
    /\ (/\ calls[c].phase = "response"
        /\ calls[c].listening
        /\ Delivered(calls[c]) < Len(calls[c].body)) =>
         ENABLED OnDataEvents(c)

\* the call made later has resolved, the call made earlier is still waiting
\* for its response
C27_Witness ==
  \E c, d \in CallIds :
    /\ c < d
    /\ calls[c].phase = "sent" /\ ~Settled(c)
    /\ calls[d].promise.state = "fulfilled"

\* C28: every wrapper passes to __send a method name that is a key of the
\* registry, and every key of the registry has a wrapper of its name; so no
\* call made through a wrapper is rejected as an unknown method.
C28_WrappersMatchRegistry ==
  /\ \A w \in Wrappers : w.method \in DOMAIN RPC
  /\ \A name \in DOMAIN RPC : \E w \in Wrappers : w.name = name
  /\ \A c \in CallIds :
       Started(c) =>
         /\ calls[c].promise # PromiseReject(UnknownMethodError)
         /\ calls[c].req.created

\* the call of the last wrapper of the class has been sent and has resolved
C28_Witness ==
  \E c \in CallIds, w \in Wrappers :
    /\ w.name = "walletprocesspsbt"
    /\ calls[c].method = w.method
    /\ Len(calls[c].args) = Len(w.defaults)
    /\ calls[c].req.created
    /\ calls[c].promise.state = "fulfilled"

====
